---- MODULE Spec2Model ----
(***************************************************************************)
(* A model of src/src/exa_service.py (class ExaService): the flattening of *)
(* a webset's items into a table (webset_to_dataframe), the aggregation of *)
(* every listed webset (websets_to_dataframe) and the merge of the tables  *)
(* saved in the data folder (combine_saved_df).                            *)
(*                                                                         *)
(* Python strings are sequences of characters.  A multi-character literal  *)
(* that the code only ever handles whole (".csv", "clean_df_part", ...) is *)
(* one element of such a sequence.  A Python value that may be None, a     *)
(* string or a number is a cell [tag, val].                                *)
(***************************************************************************)
EXTENDS Naturals, Sequences, FiniteSets, TLC

\* ------------------------------------------------------------------ bounds
\* Items of the remote service, over all listed websets; rows of the files
\* found in the data folder, over all files.
MaxRows == 2

\* ------------------------------------------------------------------ values
None == [tag |-> "none", val |-> <<>>]

Str(s) == [tag |-> "str", val |-> s]

Num(s) == [tag |-> "num", val |-> s]

\* Python's truth value of a cell: None and "" are false.
Truthy(c) == c.tag # "none" /\ ~(c.tag = "str" /\ c.val = <<>>)

\* Code points of the characters the model uses (str comparison is by code point).
CodePoint(ch) ==
  CASE ch = "$" -> 36
    [] ch = "." -> 46
    [] ch = "5" -> 53
    [] ch = "@" -> 64
    [] ch = "A" -> 65
    [] ch = "B" -> 66
    [] ch = "M" -> 77
    [] ch = "X" -> 88
    [] ch = "Y" -> 89
    [] ch = "_" -> 95
    [] ch = "a" -> 97
    [] ch = "b" -> 98
    [] ch = "c" -> 99
    [] ch = "clean_df_part" -> 99
    [] OTHER -> 122

RECURSIVE StrLess(_, _)
\* s < t for two Python strings.
StrLess(s, t) ==
  IF t = <<>> THEN FALSE
  ELSE IF s = <<>> THEN TRUE
  ELSE IF CodePoint(Head(s)) # CodePoint(Head(t))
       THEN CodePoint(Head(s)) < CodePoint(Head(t))
       ELSE StrLess(Tail(s), Tail(t))

\* str.startswith
StartsWith(s, prefix) ==
  Len(s) >= Len(prefix) /\ SubSeq(s, 1, Len(prefix)) = prefix

Range(s) == {s[i] : i \in 1..Len(s)}

\* ------------------------------------------------------------------ class constants
CLEAN_DF_NAME_PATTERN == <<"clean_df_part">>

\* The keys of item_to_add, in the order the dict is built.
COLUMNS ==
  << "Company Name", "Vertical", "Money Raised", "CEO Email", "Location",
     "Employees", "Industry", "URL", "Description", "Email Reasoning",
     "Financials Reasoning" >>

\* ------------------------------------------------------------------ email_validator
\* The grammar, cut down to what the model's strings can show: one "@", a
\* non-empty local part, a domain of at least two non-empty labels.
AtPositions(s) == {i \in 1..Len(s) : s[i] = "@"}

DomainOf(s) ==
  LET at == CHOOSE i \in AtPositions(s) : TRUE IN SubSeq(s, at + 1, Len(s))

DomainOk(d) ==
  /\ Len(d) >= 3
  /\ d[1] # "."
  /\ d[Len(d)] # "."
  /\ \E i \in 1..Len(d) : d[i] = "."
  /\ \A i \in 1..(Len(d) - 1) : ~(d[i] = "." /\ d[i + 1] = ".")

SyntaxValid(s) ==
  /\ Cardinality(AtPositions(s)) = 1
  /\ s[1] # "@"
  /\ DomainOk(DomainOf(s))

\* email_validator.validate_email(email) as called at its defaults
\* (deliverability is checked: the domain is looked up in the DNS).
\* resolvable: the domains the lookup finds in this call.
ValidateEmailOutcome(email, resolvable) ==
  IF email.tag # "str" THEN "Exception"
  ELSE IF ~SyntaxValid(email.val) THEN "EmailNotValidError"
  ELSE IF DomainOf(email.val) \notin resolvable THEN "EmailNotValidError"
  ELSE "ok"

validate_email(email, resolvable) ==
  IF ValidateEmailOutcome(email, resolvable) = "ok" THEN email ELSE None

\* ------------------------------------------------------------------ tables
\* A pandas DataFrame: its columns in order, its rows in order; a row maps
\* each column to a cell.
DataFrame(columns, rows) == [columns |-> columns, rows |-> rows]

\* pd.DataFrame(items_for_dataframe): the columns are the keys of the dicts,
\* so a list of no dicts gives a frame of no columns.
DataFrameOfRecords(records) ==
  DataFrame(IF records = <<>> THEN <<>> ELSE COLUMNS, records)

\* DataFrame.empty: an axis of length 0.
IsEmptyFrame(df) == df.rows = <<>> \/ df.columns = <<>>

\* What a call returns: the exception it raised ("" for none) and the table.
NoFrame == DataFrame(<<>>, <<>>)

Raised(err) == [err |-> err, df |-> NoFrame]

Returned(df) == [err |-> "", df |-> df]

\* ------------------------------------------------------------------ the remote service
\* An enrichment result's .result is None or a list.
NoResult == [present |-> FALSE, list |-> <<>>]

ResultList(l) == [present |-> TRUE, list |-> l]

ResultTruthy(r) == r.present /\ r.list # <<>>

Enrichment(result, reasoning) == [result |-> result, reasoning |-> reasoning]

\* An item: properties of kind "company" are WebsetItemCompanyProperties.
Item(kind, name, location, enrichments) ==
  [ properties |->
      [ kind |-> kind,
        company |-> [ name |-> Str(name), location |-> Str(location),
                      employees |-> Num(<<"5">>), industry |-> Str(<<"A">>) ],
        url |-> Str(<<"a", ".", "c">>),
        description |-> None ],
    enrichments |-> enrichments ]

\* ------------------------------------------------------------------ flattening
\* The record of an item that passed both assertions: lines 146 to 193.
FlattenCompany(item, vertical_title, resolvable) ==
  LET company_properties == item.properties.company
      email == IF ResultTruthy(item.enrichments[1].result)
               THEN item.enrichments[1].result.list[1] ELSE None
      financials == IF ResultTruthy(item.enrichments[2].result)
                    THEN item.enrichments[2].result.list[1] ELSE None
      used_email == email
      validated_email == validate_email(used_email, resolvable)
      ceo_email == IF Truthy(used_email)
                   THEN (IF Truthy(validated_email) THEN validated_email ELSE None)
                   ELSE email
  IN ("Company Name" :> company_properties.name)
     @@ ("Vertical" :> Str(vertical_title))
     @@ ("Money Raised" :> financials)
     @@ ("CEO Email" :> ceo_email)
     @@ ("Location" :> company_properties.location)
     @@ ("Employees" :> company_properties.employees)
     @@ ("Industry" :> company_properties.industry)
     @@ ("URL" :> item.properties.url)
     @@ ("Description" :> item.properties.description)
     @@ ("Email Reasoning" :> item.enrichments[1].reasoning)
     @@ ("Financials Reasoning" :> item.enrichments[2].reasoning)

\* The loop body with the second assertion weakened to "at least 2".
FlattenItemAtLeastTwo(item, vertical_title, resolvable) ==
  IF item.properties.kind # "company"
  THEN [err |-> "AssertionError: Properties must be a company", rec |-> << >>]
  ELSE IF Len(item.enrichments) < 2
  THEN [err |-> "AssertionError: Expected 2 enrichments", rec |-> << >>]
  ELSE [err |-> "", rec |-> FlattenCompany(item, vertical_title, resolvable)]

\* The body of the loop of webset_to_dataframe, for one item.
FlattenItem(item, vertical_title, resolvable) ==
  IF item.properties.kind # "company"
  THEN [err |-> "AssertionError: Properties must be a company", rec |-> << >>]
  ELSE IF Len(item.enrichments) # 2
  THEN [err |-> "AssertionError: Expected 2 enrichments", rec |-> << >>]
  ELSE [err |-> "", rec |-> FlattenCompany(item, vertical_title, resolvable)]

RECURSIVE FlattenLoopSkipping(_, _, _, _)
\* The loop with an item that fails skipped instead of ending the loop.
FlattenLoopSkipping(items, vertical_title, resolvable, items_for_dataframe) ==
  IF items = <<>> THEN [err |-> "", recs |-> items_for_dataframe]
  ELSE LET r == FlattenItem(Head(items), vertical_title, resolvable) IN
       FlattenLoopSkipping(Tail(items), vertical_title, resolvable,
                           IF r.err # "" THEN items_for_dataframe
                           ELSE Append(items_for_dataframe, r.rec))

RECURSIVE FlattenLoop(_, _, _, _)
\* for item in webset.items: the first item that fails ends the loop.
FlattenLoop(items, vertical_title, resolvable, items_for_dataframe) ==
  IF items = <<>> THEN [err |-> "", recs |-> items_for_dataframe]
  ELSE LET r == FlattenItem(Head(items), vertical_title, resolvable) IN
       IF r.err # "" THEN [err |-> r.err, recs |-> <<>>]
       ELSE FlattenLoop(Tail(items), vertical_title, resolvable,
                        Append(items_for_dataframe, r.rec))

\* webset_to_dataframe up to the table it builds (before it is saved).
BuildFrame(webset, resolvable) ==
  IF ~webset.items.present
  THEN Raised("AssertionError: Webset items are not None")
  ELSE LET r == FlattenLoop(webset.items.list, webset.title, resolvable, <<>>) IN
       IF r.err # "" THEN Raised(r.err)
       ELSE Returned(DataFrameOfRecords(r.recs))

\* ------------------------------------------------------------------ csv
\* A saved file: the header line and the data lines, every field a text.
CellText(c) == c.val

\* DataFrame.to_csv(path, index=False): None is written as the empty field.
ToCsv(df) ==
  [ header |-> df.columns,
    lines |-> [i \in 1..Len(df.rows) |->
                 [c \in Range(df.columns) |-> CellText(df.rows[i][c])]] ]

Digits == {"0", "1", "2", "3", "4", "5", "6", "7", "8", "9"}

IsNumberText(t) == t # <<>> /\ \A i \in 1..Len(t) : t[i] \in Digits

\* read_csv infers a column's type: numbers when every non-empty field is one.
NumericColumn(file, c) ==
  /\ \E i \in 1..Len(file.lines) : file.lines[i][c] # <<>>
  /\ \A i \in 1..Len(file.lines) :
       file.lines[i][c] = <<>> \/ IsNumberText(file.lines[i][c])

\* pd.read_csv(path): the empty field is read as NaN; a file without a
\* header line raises EmptyDataError.
ReadCsv(file) ==
  IF file.header = <<>> THEN Raised("EmptyDataError")
  ELSE Returned(DataFrame(file.header,
         [i \in 1..Len(file.lines) |->
            [c \in Range(file.header) |->
               IF file.lines[i][c] = <<>> THEN None
               ELSE IF NumericColumn(file, c) THEN Num(file.lines[i][c])
               ELSE Str(file.lines[i][c])]]))

\* ------------------------------------------------------------------ merge, dedup, sort
RECURSIVE UnionColumns(_, _)
\* The columns of pd.concat(dfs): those of the first frame, then each new one
\* in the order it is met.
UnionColumns(dfs, acc) ==
  IF dfs = <<>> THEN acc
  ELSE UnionColumns(Tail(dfs),
         acc \o SelectSeq(Head(dfs).columns, LAMBDA c : c \notin Range(acc)))

RECURSIVE ConcatRows(_, _)
\* The rows of pd.concat(dfs): table after table, a missing column filled with NaN.
ConcatRows(dfs, columns) ==
  IF dfs = <<>> THEN <<>>
  ELSE LET df == Head(dfs) IN
       [i \in 1..Len(df.rows) |->
          [c \in Range(columns) |->
             IF c \in Range(df.columns) THEN df.rows[i][c] ELSE None]]
       \o ConcatRows(Tail(dfs), columns)

\* pd.concat that answers a list of no tables with a table of no rows.
ConcatOfNoneIsEmpty(dfs) ==
  LET columns == UnionColumns(dfs, <<>>) IN
  Returned(DataFrame(columns, ConcatRows(dfs, columns)))

\* pd.concat(dfs)
Concat(dfs) ==
  IF dfs = <<>> THEN Raised("ValueError: No objects to concatenate")
  ELSE LET columns == UnionColumns(dfs, <<>>) IN
       Returned(DataFrame(columns, ConcatRows(dfs, columns)))

\* drop_duplicates with keep="last".
KeptRowsKeepLast(rows, col) ==
  {i \in 1..Len(rows) : \A j \in (i + 1)..Len(rows) : rows[j][col] # rows[i][col]}

\* The rows drop_duplicates keeps: keep="first".
KeptRows(rows, col) ==
  {i \in 1..Len(rows) : \A j \in 1..(i - 1) : rows[j][col] # rows[i][col]}

RECURSIVE Pick(_, _, _)
\* rows[i] for the i of keep, in increasing order, from row i0 on.
Pick(rows, keep, i0) ==
  IF i0 > Len(rows) THEN <<>>
  ELSE (IF i0 \in keep THEN <<rows[i0]>> ELSE <<>>) \o Pick(rows, keep, i0 + 1)

\* df.drop_duplicates(subset=["Company Name"]): an empty frame is returned as
\* it is, before the subset is looked up.
DropDuplicates(df) ==
  IF IsEmptyFrame(df) THEN Returned(df)
  ELSE IF "Company Name" \notin Range(df.columns)
  THEN Raised("KeyError: Company Name")
  ELSE Returned(DataFrame(df.columns,
                          Pick(df.rows, KeptRows(df.rows, "Company Name"), 1)))

\* The order of sort_values(ascending=True, na_position="last") on two keys.
KeyLess(a, b) ==
  \/ a.tag # "none" /\ b.tag = "none"
  \/ a.tag # "none" /\ b.tag # "none" /\ StrLess(a.val, b.val)

\* df.sort_values(by="Vertical", ascending=True): kind is left at its default,
\* "quicksort", which pandas documents as not stable: the rows come out in
\* some order that is ascending by Vertical.
SortOrders(rows) ==
  {p \in Permutations(1..Len(rows)) :
     \A i, j \in 1..Len(rows) :
        i < j => ~KeyLess(rows[p[j]]["Vertical"], rows[p[i]]["Vertical"])}

SortValues(df) ==
  IF "Vertical" \notin Range(df.columns) THEN {Raised("KeyError: Vertical")}
  ELSE {Returned(DataFrame(df.columns, [i \in 1..Len(df.rows) |-> df.rows[p[i]]])) :
          p \in SortOrders(df.rows)}

\* concat, drop_duplicates, sort_values as both callers run them: the set of
\* outcomes (one, but for the order of rows of equal Vertical).
MergeDedupSort(dfs) ==
  LET c == Concat(dfs) IN
  IF c.err # "" THEN {c}
  ELSE LET d == DropDuplicates(c.df) IN
       IF d.err # "" THEN {d} ELSE SortValues(d.df)

\* ------------------------------------------------------------------ state
VARIABLES
  websets,        \* the remote service: the websets list_websets returns, in order
  folder_exists,  \* whether the folder "data" exists
  disk,           \* the files of the folder "data": name -> saved file
  persisted,      \* ids of the websets whose table webset_to_dataframe saved
  last            \* the last call: its arguments and what it returned or raised

vars == <<websets, folder_exists, disk, persisted, last>>

\* files: the files read, in order; inputs: the tables handed to pd.concat (or
\* built before the call raised); wrote: the files the call wrote.
Call(op, id, save, files, inputs, outcome, wrote) ==
  [ op |-> op, id |-> id, save |-> save, files |-> files, inputs |-> inputs,
    err |-> outcome.err, df |-> outcome.df, wrote |-> wrote ]

\* get_webset(id): the webset with its items expanded.
get_webset(id) == CHOOSE w \in Range(websets) : w.id = id

FileOfVertical(vertical_title) == vertical_title \o <<".csv">>

COMBINED_DF == <<"combined_df", ".csv">>

TOTAL_COMBINED_DF == <<"total_", "combined_df", ".csv">>

\* df.to_csv(path, index=False)
Write(files, name, df) == (name :> ToCsv(df)) @@ files

\* The domains validate_email looks up for the items of the websets ws: those
\* of the syntactically valid addresses that reach it.
Domains(ws) ==
  { DomainOf(e.val) :
      e \in { it.enrichments[1].result.list[1] :
                it \in { x \in UNION {Range(ws[i].items.list) : i \in 1..Len(ws)} :
                           /\ Len(x.enrichments) >= 1
                           /\ ResultTruthy(x.enrichments[1].result)
                           /\ x.enrichments[1].result.list[1].tag = "str"
                           /\ SyntaxValid(x.enrichments[1].result.list[1].val) } } }

\* ------------------------------------------------------------------ operations
\* webset_to_dataframe(webset_id, save)
webset_to_dataframe(webset_id, save, resolvable) ==
  LET webset == get_webset(webset_id)
      r == BuildFrame(webset, resolvable)
      saved == r.err = "" /\ save
  IN /\ folder_exists' = TRUE
     /\ disk' = IF saved THEN Write(disk, FileOfVertical(webset.title), r.df) ELSE disk
     /\ persisted' = IF saved THEN persisted \cup {webset_id} ELSE persisted
     /\ last' = Call("webset_to_dataframe", webset_id, save, <<>>, <<>>, r,
                     IF saved THEN {FileOfVertical(webset.title)} ELSE {})
     /\ UNCHANGED websets

RECURSIVE FrameLoop(_, _, _)
\* The loop of websets_to_dataframe: webset_to_dataframe(webset_id, save=False)
\* for each listed webset; the first one that raises ends the loop.
FrameLoop(data, resolvable, dfs) ==
  IF data = <<>> THEN [err |-> "", dfs |-> dfs]
  ELSE LET r == BuildFrame(get_webset(Head(data).id), resolvable) IN
       IF r.err # "" THEN [err |-> r.err, dfs |-> dfs]
       ELSE FrameLoop(Tail(data), resolvable, Append(dfs, r.df))

\* websets_to_dataframe(save)
websets_to_dataframe(save, resolvable) ==
  LET loop == FrameLoop(websets, resolvable, <<>>) IN
  \E r \in (IF loop.err # "" THEN {Raised(loop.err)} ELSE MergeDedupSort(loop.dfs)) :
     /\ folder_exists' = (folder_exists \/ websets # <<>>)
     /\ disk' = IF r.err = "" /\ save THEN Write(disk, COMBINED_DF, r.df) ELSE disk
     /\ last' = Call("websets_to_dataframe", "", save, <<>>, loop.dfs, r,
                     IF r.err = "" /\ save THEN {COMBINED_DF} ELSE {})
     /\ UNCHANGED <<websets, persisted>>

RECURSIVE ReadLoop(_, _)
\* The loop of combine_saved_df: read_csv for each file; the first that raises ends it.
ReadLoop(df_files, dfs) ==
  IF df_files = <<>> THEN [err |-> "", dfs |-> dfs]
  ELSE LET r == ReadCsv(disk[Head(df_files)]) IN
       IF r.err # "" THEN [err |-> r.err, dfs |-> dfs]
       ELSE ReadLoop(Tail(df_files), Append(dfs, r.df))

\* os.listdir returns the names in an arbitrary order; the names that pass the
\* filter keep the order listdir gave them.
Listings(names) ==
  {l \in [1..Cardinality(names) -> names] :
     \A i, j \in 1..Cardinality(names) : i # j => l[i] # l[j]}

\* combine_saved_df(save)
combine_saved_df(save) ==
  IF ~folder_exists
  THEN /\ last' = Call("combine_saved_df", "", save, <<>>, <<>>,
                       Raised("FileNotFoundError"), {})
       /\ UNCHANGED <<websets, folder_exists, disk, persisted>>
  ELSE
    \E df_files \in Listings({file \in DOMAIN disk :
                                StartsWith(file, CLEAN_DF_NAME_PATTERN)}) :
      LET loop == ReadLoop(df_files, <<>>)
      IN \E r \in (IF loop.err # "" THEN {Raised(loop.err)} ELSE MergeDedupSort(loop.dfs)) :
           /\ disk' = IF r.err = "" /\ save THEN Write(disk, TOTAL_COMBINED_DF, r.df) ELSE disk
           /\ last' = Call("combine_saved_df", "", save, df_files, loop.dfs, r,
                           IF r.err = "" /\ save THEN {TOTAL_COMBINED_DF} ELSE {})
           /\ UNCHANGED <<websets, folder_exists, persisted>>

\* ------------------------------------------------------------------ initial states
SeqsUpTo(S, n) == UNION {[1..k -> S] : k \in 0..n}

VALID_EMAIL == <<"a", "@", "b", ".", "c">>

FIVE_M == ResultList(<<Str(<<"$", "5", "M">>)>>)

Reasoning == Str(<<"a">>)

Company(name, location, email_result, money_result) ==
  Item("company", name, location,
       <<Enrichment(email_result, Reasoning), Enrichment(money_result, None)>>)

\* Items of every shape the flattening tells apart.
FlattenPool ==
  { Company(<<"X">>, <<"A">>, NoResult, FIVE_M),
    Company(<<"X">>, <<"A">>, ResultList(<<>>), NoResult),
    Company(<<"X">>, <<"A">>, ResultList(<<Str(<<>>)>>), FIVE_M),
    Company(<<"X">>, <<"A">>, ResultList(<<Str(<<"a">>), Str(VALID_EMAIL)>>), ResultList(<<>>)),
    Company(<<"Y">>, <<"A">>, ResultList(<<Str(VALID_EMAIL)>>), FIVE_M),
    Company(<<"Y">>, <<"A">>, ResultList(<<Num(<<"5">>)>>), FIVE_M),
    Item("article", <<"X">>, <<"A">>,
         <<Enrichment(NoResult, Reasoning), Enrichment(FIVE_M, None)>>),
    Item("company", <<"X">>, <<"A">>, <<>>),
    Item("company", <<"X">>, <<"A">>, <<Enrichment(NoResult, Reasoning)>>),
    Item("company", <<"X">>, <<"A">>,
         <<Enrichment(NoResult, Reasoning), Enrichment(FIVE_M, None),
           Enrichment(NoResult, None)>>) }

\* Items for the aggregation: two names, one of them with two different rows,
\* and an item that does not flatten.
MergePool ==
  { Company(<<"X">>, <<"A">>, NoResult, FIVE_M),
    Company(<<"X">>, <<"B">>, NoResult, NoResult),
    Company(<<"Y">>, <<"A">>, NoResult, FIVE_M),
    Item("article", <<"Y">>, <<"B">>,
         <<Enrichment(NoResult, Reasoning), Enrichment(FIVE_M, None)>>) }

Webset(id, title, items) == [id |-> id, title |-> title, items |-> items]

ItemsAbsent == [present |-> FALSE, list |-> <<>>]

Items(l) == [present |-> TRUE, list |-> l]

ItemsUpTo(pool, n) == {ItemsAbsent} \cup {Items(l) : l \in SeqsUpTo(pool, n)}

PART_A == <<"clean_df_part", "_", "A">>

\* One webset, its items of any shape.
InitFlatten ==
  /\ websets \in {<<Webset("w1", <<"B">>, it)>> : it \in ItemsUpTo(FlattenPool, MaxRows - 1)}
  /\ folder_exists = FALSE
  /\ disk = << >>

\* No webset, or two, listed against the order of their titles; the first
\* title starts with CLEAN_DF_NAME_PATTERN.
InitAggregate ==
  /\ websets \in
       {<< >>}
       \cup {<<Webset("w1", PART_A, its[1]), Webset("w2", <<"B">>, its[2])>> :
               its \in {x \in ItemsUpTo(MergePool, MaxRows) \X ItemsUpTo(MergePool, MaxRows) :
                          Len(x[1].list) + Len(x[2].list) <= MaxRows}}
  /\ folder_exists = FALSE
  /\ disk = << >>

\* A row of a table saved earlier.
Record(name, vertical, location) ==
  ("Company Name" :> Str(name))
  @@ ("Vertical" :> vertical)
  @@ ("Money Raised" :> Str(<<"$", "5", "M">>))
  @@ ("CEO Email" :> None)
  @@ ("Location" :> Str(location))
  @@ ("Employees" :> Num(<<"5">>))
  @@ ("Industry" :> Str(<<"A">>))
  @@ ("URL" :> Str(<<"a", ".", "c">>))
  @@ ("Description" :> None)
  @@ ("Email Reasoning" :> Reasoning)
  @@ ("Financials Reasoning" :> None)

\* Two rows of one name that differ (one of them without a Vertical), and a
\* row of another name.
RowPool ==
  { Record(<<"X">>, Str(<<"A">>), <<"A">>),
    Record(<<"X">>, None, <<"B">>),
    Record(<<"Y">>, Str(<<"A">>), <<"A">>) }

Without(columns, c) == SelectSeq(columns, LAMBDA x : x # c)

\* The fixed columns, and files saved with a column more or a column less.
Schemas ==
  { COLUMNS, Append(COLUMNS, "Extra"), Without(COLUMNS, "Location"),
    Without(COLUMNS, "Company Name"), Without(COLUMNS, "Vertical") }

SavedFile(columns, rows) ==
  ToCsv(DataFrame(columns,
          [i \in 1..Len(rows) |->
             [c \in Range(columns) |->
                IF c \in DOMAIN rows[i] THEN rows[i][c] ELSE Str(<<"a">>)]]))

\* A file of no bytes.
EmptyFile == [header |-> <<>>, lines |-> <<>>]

PART_A_CSV == FileOfVertical(PART_A)

PART_B_CSV == <<"clean_df_part", "_", "B", ".csv">>

OTHER_CSV == <<"B", ".csv">>

\* No webset; the folder holds one or two files named clean_df_part..., the
\* first of any schema, and in the second case a file of another name.
InitDisk ==
  /\ websets = << >>
  /\ folder_exists = TRUE
  /\ disk \in
       {(PART_A_CSV :> SavedFile(sc, r)) :
          sc \in Schemas, r \in SeqsUpTo(RowPool, MaxRows)}
       \cup {(PART_A_CSV :> EmptyFile)}
       \cup {(PART_A_CSV :> SavedFile(sc, r[1])) @@ (PART_B_CSV :> SavedFile(COLUMNS, r[2]))
             @@ (OTHER_CSV :> SavedFile(COLUMNS, r[2])) :
               sc \in Schemas,
               r \in {x \in SeqsUpTo(RowPool, MaxRows) \X SeqsUpTo(RowPool, MaxRows) :
                        Len(x[1]) + Len(x[2]) <= MaxRows}}

Init ==
  /\ (InitFlatten \/ InitAggregate \/ InitDisk)
  /\ persisted = {}
  /\ last = Call("", "", FALSE, <<>>, <<>>, Raised(""), {})

\* ------------------------------------------------------------------ specification
WebsetToDataframe ==
  \E w \in Range(websets), save \in BOOLEAN :
     \E resolvable \in SUBSET Domains(<<w>>) :
        webset_to_dataframe(w.id, save, resolvable)

WebsetsToDataframe ==
  \E save \in BOOLEAN, resolvable \in SUBSET Domains(websets) :
     websets_to_dataframe(save, resolvable)

CombineSavedDf == \E save \in BOOLEAN : combine_saved_df(save)

Next == WebsetToDataframe \/ WebsetsToDataframe \/ CombineSavedDf

Spec == Init /\ [][Next]_vars

\* ------------------------------------------------------------------ properties
IsMerge == last.op \in {"websets_to_dataframe", "combine_saved_df"}

MergeReturned == IsMerge /\ last.err = ""

RECURSIVE FlatRows(_)
\* The rows of the input tables, table after table.
FlatRows(dfs) == IF dfs = <<>> THEN <<>> ELSE Head(dfs).rows \o FlatRows(Tail(dfs))

CellOf(row, c) == IF c \in DOMAIN row THEN row[c] ELSE None

NameOf(row) == CellOf(row, "Company Name")

VerticalOf(row) == CellOf(row, "Vertical")

SameFields(out, in) == \A c \in DOMAIN in : out[c] = in[c]

FirstWithName(rows, name) ==
  CHOOSE i \in 1..Len(rows) :
    /\ NameOf(rows[i]) = name
    /\ \A j \in 1..(i - 1) : NameOf(rows[j]) # name

\* C1: a merge that returns (websets_to_dataframe, combine_saved_df) returns
\* exactly one row for each Company Name of its input tables, and that row
\* is, field by field, the first row of that name in the concatenated order.
C1_FirstOccurrenceKept ==
  MergeReturned =>
    LET in == FlatRows(last.inputs)
        out == last.df.rows
    IN /\ \A i \in 1..Len(in) :
            /\ Cardinality({k \in 1..Len(out) : NameOf(out[k]) = NameOf(in[i])}) = 1
            /\ \A k \in 1..Len(out) :
                 NameOf(out[k]) = NameOf(in[i])
                   => SameFields(out[k], in[FirstWithName(in, NameOf(in[i]))])
       /\ \A k \in 1..Len(out) : \E i \in 1..Len(in) : NameOf(in[i]) = NameOf(out[k])

\* A merge of two tables returned, and a name came twice with different fields.
C1_Witness ==
  /\ MergeReturned
  /\ Len(last.inputs) = 2
  /\ \E i \in 1..Len(last.inputs[1].rows), j \in 1..Len(last.inputs[2].rows) :
        /\ NameOf(last.inputs[1].rows[i]) = NameOf(last.inputs[2].rows[j])
        /\ last.inputs[1].rows[i] # last.inputs[2].rows[j]

\* The rows left after the deduplication, in their order.
DedupRows(rows) ==
  Pick(rows, {i \in 1..Len(rows) : FirstWithName(rows, NameOf(rows[i])) = i}, 1)

PositionOf(rows, name) == CHOOSE k \in 1..Len(rows) : NameOf(rows[k]) = name

Ascending(rows) ==
  \A i, j \in 1..Len(rows) :
     i < j => ~KeyLess(VerticalOf(rows[j]), VerticalOf(rows[i]))

\* C2: the table a merge returns is ascending by Vertical, and two rows of
\* equal Vertical come in the order they had after the deduplication.
C2_AscendingAndStable ==
  MergeReturned =>
    LET d == DedupRows(FlatRows(last.inputs))
        out == last.df.rows
    IN /\ Ascending(out)
       /\ \A i, j \in 1..Len(d) :
            (i < j /\ VerticalOf(d[i]) = VerticalOf(d[j]))
              => PositionOf(out, NameOf(d[i])) < PositionOf(out, NameOf(d[j]))

\* C9: concat, drop_duplicates, sort_values applied to the one table a merge
\* returned give that table back, the same rows in the same order.
C9_Idempotent ==
  MergeReturned => MergeDedupSort(<<last.df>>) = {Returned(last.df)}

IsFlatten == last.op = "webset_to_dataframe"

ItemIsCompany(item) == item.properties.kind = "company"

ItemFlattens(item) == ItemIsCompany(item) /\ Len(item.enrichments) = 2

\* The exception the item raises when it does not flatten.
SchemaViolationOf(item) ==
  IF ~ItemIsCompany(item) THEN "AssertionError: Properties must be a company"
  ELSE "AssertionError: Expected 2 enrichments"

FirstNotFlattening(items) ==
  CHOOSE k \in 1..Len(items) :
    /\ ~ItemFlattens(items[k])
    /\ \A j \in 1..(k - 1) : ItemFlattens(items[j])

\* C3: flattening raises its assertion exactly for an item that is not a
\* company or has not exactly two enrichments; items that are companies
\* with two enrichments give one record each, with or without results.
C3_FlattenFailsIffShape ==
  (IsFlatten /\ get_webset(last.id).items.present) =>
    LET items == get_webset(last.id).items.list IN
    IF \A k \in 1..Len(items) : ItemFlattens(items[k])
    THEN last.err = "" /\ Len(last.df.rows) = Len(items)
    ELSE last.err = SchemaViolationOf(items[FirstNotFlattening(items)])

\* An item of three enrichments ended the flattening.
C3_Witness ==
  /\ IsFlatten
  /\ get_webset(last.id).items.present
  /\ last.err = "AssertionError: Expected 2 enrichments"
  /\ LET items == get_webset(last.id).items.list IN
     \E k \in 1..Len(items) :
        k = FirstNotFlattening(items) /\ Len(items[k].enrichments) = 3

\* The CEO Email the claim expects of an item that flattens.
ExpectedEmail(item) ==
  LET r == item.enrichments[1].result IN
  IF r.present /\ r.list # <<>> /\ r.list[1].tag = "str" /\ SyntaxValid(r.list[1].val)
  THEN r.list[1] ELSE None

\* C4: the CEO Email of a record is the first element of the email
\* enrichment's result when that element is a syntactically valid address,
\* and None in every other case.
C4_EmailIffSyntax ==
  (IsFlatten /\ last.err = "") =>
    LET items == get_webset(last.id).items.list IN
    \A k \in 1..Len(items) :
       last.df.rows[k]["CEO Email"] = ExpectedEmail(items[k])

\* C5: webset_to_dataframe raises when the items are absent, and returns a
\* table of no rows and the 11 fixed columns when the items are empty.
C5_AbsentVersusEmpty ==
  IsFlatten =>
    LET items == get_webset(last.id).items IN
    /\ ~items.present =>
         /\ last.err = "AssertionError: Webset items are not None"
         /\ last.df = NoFrame
    /\ (items.present /\ items.list = <<>>) =>
         /\ last.err = ""
         /\ last.df = DataFrame(COLUMNS, <<>>)

\* The webset does not materialize: its items are absent or one does not flatten.
DoesNotMaterialize(w) ==
  \/ ~w.items.present
  \/ \E k \in 1..Len(w.items.list) : ~ItemFlattens(w.items.list[k])

\* C6: when an item of the webset does not flatten, webset_to_dataframe
\* returns no table and writes no file; when a listed webset does not
\* materialize, websets_to_dataframe returns no table and writes no file.
C6_NoPartialResult ==
  /\ (IsFlatten /\ DoesNotMaterialize(get_webset(last.id))) =>
       last.err # "" /\ last.df = NoFrame /\ last.wrote = {}
  /\ (last.op = "websets_to_dataframe"
        /\ \E i \in 1..Len(websets) : DoesNotMaterialize(websets[i])) =>
       last.err # "" /\ last.df = NoFrame /\ last.wrote = {}

\* webset_to_dataframe was asked to save, and the item after one that
\* flattened did not flatten.
C6_Witness ==
  /\ IsFlatten
  /\ last.save
  /\ last.err # ""
  /\ LET w == get_webset(last.id) IN
     /\ w.items.present
     /\ Len(w.items.list) >= 2
     /\ ItemFlattens(w.items.list[1])
     /\ ~ItemFlattens(w.items.list[2])

IsCombine == last.op = "combine_saved_df"

MatchingFiles == {file \in DOMAIN disk : StartsWith(file, CLEAN_DF_NAME_PATTERN)}

\* C7: combine_saved_df raises, returns no table and writes no file when a
\* file named clean_df_part... has columns other than the 11 fixed ones.
C7_SchemaChecked ==
  (IsCombine /\ folder_exists
     /\ \E file \in MatchingFiles : Range(disk[file].header) # Range(COLUMNS)) =>
    last.err # "" /\ last.df = NoFrame /\ last.wrote = {}

\* The file webset_to_dataframe saves for each listed webset, in listing order.
PerVerticalFiles == [i \in 1..Len(websets) |-> FileOfVertical(websets[i].title)]

\* The per-vertical files that were read were read in listing order.
ReadInListingOrder ==
  SelectSeq(last.files, LAMBDA f : f \in Range(PerVerticalFiles))
    = SelectSeq(PerVerticalFiles, LAMBDA f : f \in Range(last.files))

\* What websets_to_dataframe can return or raise for the listed websets.
AggregateOutcomes ==
  UNION { LET loop == FrameLoop(websets, resolvable, <<>>) IN
          IF loop.err # "" THEN {Raised(loop.err)} ELSE MergeDedupSort(loop.dfs) :
          resolvable \in SUBSET Domains(websets) }

\* C8: once webset_to_dataframe has saved the table of every listed webset,
\* combine_saved_df reads those files and returns the table
\* websets_to_dataframe returns for the same websets.
C8_DiskMergeReconstructs ==
  (IsCombine /\ websets # <<>>
     /\ persisted = {websets[i].id : i \in 1..Len(websets)}
     /\ ReadInListingOrder) =>
    /\ last.err = ""
    /\ last.files = PerVerticalFiles
    /\ Returned(last.df) \in AggregateOutcomes

\* C10: websets_to_dataframe with no webset listed, and combine_saved_df with
\* no file named clean_df_part... in the folder, raise at pd.concat, return
\* no table and write no file.
C10_EmptyInputRaises ==
  /\ (last.op = "websets_to_dataframe" /\ websets = <<>>) =>
       /\ last.err = "ValueError: No objects to concatenate"
       /\ last.df = NoFrame
       /\ last.wrote = {}
  /\ (IsCombine /\ folder_exists /\ MatchingFiles = {}) =>
       /\ last.err = "ValueError: No objects to concatenate"
       /\ last.df = NoFrame
       /\ last.wrote = {}

\* combine_saved_df was asked to save in a folder that holds a file, none of
\* them named clean_df_part...
C10_Witness ==
  /\ IsCombine
  /\ last.save
  /\ folder_exists
  /\ DOMAIN disk # {}
  /\ MatchingFiles = {}

====
